---- MODULE Spec2Model ----
(***************************************************************************)
(* AuraCircleMgr (src/src/control/circle_mgr.cxx): the circle-hold task    *)
(* that reads the vehicle state and the circle parameters from the         *)
(* property tree and publishes a target ground course, a target roll and   *)
(* the distance / ETA to the circle centre.                                *)
(*                                                                         *)
(* Numbers.  A C++ double is modelled as a fixed-point number: the integer *)
(* n stands for n / Scale.  Every multiplication and division rounds to    *)
(* the nearest representable value, sign-symmetrically, as IEEE arithmetic *)
(* does.  The three non-finite doubles are kept: Inf, -Inf and NaN, with   *)
(* the IEEE rules for producing and comparing them.                        *)
(***************************************************************************)
EXTENDS Integers, FiniteSets, Sequences, TLC

\* ------------------------------------------------------------------ bounds
\* blackboard writes (sensor, config or setter) between two update() ticks
MaxWrites == 1
\* vehicle positions lie at 0 .. MaxDistSteps steps of DistStep from the centre
MaxDistSteps == 4

\* ------------------------------------------------------- double arithmetic
Scale == 100
Inf == 1000000000
NaN == 2000000000

D(n) == n * Scale

Abs(n) == IF n < 0 THEN -n ELSE n
Sgn(n) == IF n < 0 THEN -1 ELSE IF n > 0 THEN 1 ELSE 0

IsNaN(x) == x = NaN
IsInf(x) == x = Inf \/ x = -Inf

\* n / d rounded to the nearest integer, halves away from zero
Round(n, d) == Sgn(n) * Sgn(d) * ((2 * Abs(n) + Abs(d)) \div (2 * Abs(d)))

FNeg(a) == IF IsNaN(a) THEN NaN ELSE -a

FAdd(a, b) ==
    IF IsNaN(a) \/ IsNaN(b) THEN NaN
    ELSE IF IsInf(a) /\ IsInf(b) THEN (IF a = b THEN a ELSE NaN)
    ELSE IF IsInf(a) THEN a
    ELSE IF IsInf(b) THEN b
    ELSE a + b

FSub(a, b) == FAdd(a, FNeg(b))

FMul(a, b) ==
    IF IsNaN(a) \/ IsNaN(b) THEN NaN
    ELSE IF IsInf(a) \/ IsInf(b)
         THEN (IF a = 0 \/ b = 0 THEN NaN ELSE Sgn(a) * Sgn(b) * Inf)
    ELSE Round(a * b, Scale)

FDiv(a, b) ==
    IF IsNaN(a) \/ IsNaN(b) THEN NaN
    ELSE IF IsInf(a) THEN (IF IsInf(b) THEN NaN
                           ELSE IF b < 0 THEN -a ELSE a)
    ELSE IF IsInf(b) THEN 0
    ELSE IF b = 0 THEN (IF a = 0 THEN NaN ELSE Sgn(a) * Inf)
    ELSE Round(a * Scale, b)

\* ordered comparisons are false as soon as one side is NaN
FLt(a, b) == ~IsNaN(a) /\ ~IsNaN(b) /\ a < b
FGt(a, b) == ~IsNaN(a) /\ ~IsNaN(b) /\ a > b
FLe(a, b) == ~IsNaN(a) /\ ~IsNaN(b) /\ a <= b
FGe(a, b) == ~IsNaN(a) /\ ~IsNaN(b) /\ a >= b

\* double -> float narrowing of setFloatValue(): a float keeps 24 bits of
\* mantissa, so magnitudes above 2^24 units lose their low bits
FloatMantissa == 16777216
RECURSIVE FloatUlp(_)
FloatUlp(m) == IF m < FloatMantissa THEN 1 ELSE 2 * FloatUlp(m \div 2)
ToFloat(x) ==
    IF IsNaN(x) \/ IsInf(x) THEN x
    ELSE Round(x, FloatUlp(Abs(x))) * FloatUlp(Abs(x))

\* --------------------------------------------------------------- constants
\* pi = PiNum / PiDen; SGD_PI is its fixed-point value
PiNum == 355
PiDen == 113
SGD_PI == Round(PiNum * Scale, PiDen)
sqrt_of_2 == Round(141421356 , 100000000 \div Scale)
gravity == Round(981 * Scale, 100)

\* x * SG_DEGREES_TO_RADIANS and x * SG_RADIANS_TO_DEGREES; the factor
\* pi/180 is far smaller than one fixed-point unit, so the product is taken
\* with the factor as a ratio
DegToRad(x) ==
    IF IsNaN(x) \/ IsInf(x) THEN x ELSE Round(x * PiNum, 180 * PiDen)
RadToDeg(x) ==
    IF IsNaN(x) \/ IsInf(x) THEN x ELSE Round(x * 180 * PiDen, PiNum)

\* sin(x), x in radians: Bhaskara's rational approximation
\* 16 y (pi - y) / (5 pi^2 - 4 y (pi - y)) on [0, pi], odd and 2pi-periodic
SinPos(y) ==
    LET p == y * (SGD_PI - y)
    IN  Round(16 * p * Scale, 5 * SGD_PI * SGD_PI - 4 * p)
Sin(x) ==
    IF IsNaN(x) \/ IsInf(x) THEN NaN
    ELSE LET r == Abs(x) % (2 * SGD_PI)
             s == IF r <= SGD_PI THEN SinPos(r) ELSE -SinPos(r - SGD_PI)
         IN  Sgn(x) * s

\* atan(x) in radians: x / (1 + 0.28 x^2) for |x| <= 1 and
\* pi/2 - x / (x^2 + 0.28) beyond, odd; atan(+-Inf) = +-pi/2
Atan(x) ==
    IF IsNaN(x) THEN NaN
    ELSE IF IsInf(x) THEN Sgn(x) * Round(SGD_PI, 2)
    ELSE LET a == Abs(x)
             r == IF a <= Scale
                  THEN Round(a * Scale * Scale,
                             Scale * Scale + (28 * a * a) \div 100)
                  ELSE Round(SGD_PI, 2)
                       - Round(a * Scale * Scale,
                               a * a + (28 * Scale * Scale) \div 100)
         IN  Sgn(x) * r

\* ------------------------------------------------------------ input domains
DistStep == D(50)
\* vehicle positions (lon, lat) in a local planar frame whose axes pass
\* through the circle centre
Points ==
    {<<0, 0>>} \cup
    UNION {{<<0, k * DistStep>>, <<0, -k * DistStep>>,
            <<k * DistStep, 0>>, <<-k * DistStep, 0>>} : k \in 1..MaxDistSteps}
Groundtracks == {D(0), D(90), D(360)}
Speeds == {0, D(1) \div 10, D(5), D(20)}
DirectionArgs == {"left", "right"}
RadiusArgs == {D(5), D(100)}
BankLimits == {-D(5), D(10)}
L1Periods == {0, D(10)}
\* task parameters handed to the constructor
TaskDirections == {"left", "right", "banana"}
TaskRadii == {D(5), D(100), D(200)}
TaskAgls == {0, D(500)}
TaskSpeeds == {0, D(30)}

\* ------------------------------------------------------------------- state
VARIABLES
    this,        \* members set by the constructor, and whether bind() has run
    bb,          \* the property tree: the value of every leaf the task binds
    tick,        \* the locals of the most recent update()
    last,        \* the most recent operation
    writes,      \* blackboard writes since the most recent update()
    cfg_written  \* has anything written <config>/radius-m or <config>/direction

vars == <<this, bb, tick, last, writes, cfg_written>>

\* a property tree in which no leaf has been set: getDoubleValue() gives 0,
\* getStringValue() gives ""
EmptyTree ==
    [ lon |-> 0, lat |-> 0, groundtrack |-> 0, groundspeed |-> 0,
      coord_lon |-> 0, coord_lat |-> 0,
      direction |-> "", radius |-> 0,
      override_agl |-> 0, override_speed |-> 0,
      bank_limit |-> 0, L1_period |-> 0,
      ap_speed |-> 0, ap_agl |-> 0, ap_roll |-> 0,
      target_course_deg |-> 0, wp_dist_m |-> 0, wp_eta_sec |-> 0 ]

NoTick ==
    [ direction |-> 0, course_deg |-> 0, dist_m |-> 0, ideal_crs |-> 0,
      radius_m |-> 0, offset_deg |-> 0, target_crs |-> 0,
      course_error |-> 0, ideal_accel |-> 0, total_accel |-> 0,
      target_bank_deg |-> 0, bank_limit_deg |-> 0, gs_mps |-> 0,
      divisions |-> {} ]

\* AuraCircleMgr::AuraCircleMgr
Construct(dir, rad, agl, spd) ==
    [ _direction |-> dir, _radius_m |-> rad,
      _target_agl_ft |-> agl, _target_speed_kt |-> spd, bound |-> FALSE ]

\* ------------------------------------------------------------ update(), pure
\* SGWayPoint::CourseAndDistance, planar: the bearing from the vehicle to the
\* centre and the distance between them, for a vehicle on an axis through the
\* centre; coincident points give bearing 0
CourseAndDistance(lon, lat, clon, clat) ==
    LET dx == clon - lon
        dy == clat - lat
    IN  IF dx = 0
        THEN [ course_deg |-> IF dy >= 0 THEN D(0) ELSE D(180), dist_m |-> Abs(dy) ]
        ELSE [ course_deg |-> IF dx > 0 THEN D(90) ELSE D(270), dist_m |-> Abs(dx) ]

\* direction_str -> sign
DirectionSign(direction_str) == IF direction_str = "right" THEN -D(1) ELSE D(1)

\* if ( crs > 360.0 ) crs -= 360.0;  if ( crs < 0.0 ) crs += 360.0;
Wrap360(crs) ==
    LET a == IF FGt(crs, D(360)) THEN FSub(crs, D(360)) ELSE crs
    IN  IF FLt(a, D(0)) THEN FAdd(a, D(360)) ELSE a

\* (in)sanity check on the radius
ClampRadius(r) == IF FLt(r, D(10)) THEN D(10) ELSE r

\* inside the circle: direction * 90.0 * (1.0 - dist_m / radius_m)
OffsetInside(direction, dist_m, radius_m) ==
    FMul(FMul(direction, D(90)), FSub(D(1), FDiv(dist_m, radius_m)))

\* outside the circle: direction * 90 * offset_dist / radius_m, offset_dist
\* being dist_m - radius_m capped at radius_m
OffsetOutside(direction, dist_m, radius_m) ==
    LET d0 == FSub(dist_m, radius_m)
        offset_dist == IF FGt(d0, radius_m) THEN radius_m ELSE d0
    IN  FDiv(FMul(FMul(direction, D(90)), offset_dist), radius_m)

\* the signed offset added to ideal_crs (0 on the rim)
OffsetDeg(direction, dist_m, radius_m) ==
    IF FLt(dist_m, radius_m) THEN OffsetInside(direction, dist_m, radius_m)
    ELSE IF FGt(dist_m, radius_m)
         THEN FNeg(OffsetOutside(direction, dist_m, radius_m))
    ELSE 0

TargetCourse(ideal_crs, direction, dist_m, radius_m) ==
    IF FLt(dist_m, radius_m) \/ FGt(dist_m, radius_m)
    THEN Wrap360(FAdd(ideal_crs, OffsetDeg(direction, dist_m, radius_m)))
    ELSE ideal_crs

\* groundtrack - target_crs, brought back by one turn
CourseError(groundtrack, target_crs) ==
    LET e == FSub(groundtrack, target_crs)
        a == IF FLt(e, -D(180)) THEN FAdd(e, D(360)) ELSE e
    IN  IF FGt(a, D(180)) THEN FSub(a, D(360)) ELSE a

\* the same with the direction factor left out
IdealAccelUnsigned(direction, gs_mps, radius_m) ==
    FDiv(FMul(gs_mps, gs_mps), radius_m)

\* direction * gs_mps * gs_mps / radius_m
IdealAccel(direction, gs_mps, radius_m) ==
    FDiv(FMul(FMul(direction, gs_mps), gs_mps), radius_m)

\* clamp to the bank limit: the lower test first, then the upper
ClampBank(target_bank_deg, bank_limit_deg) ==
    LET a == IF FLt(target_bank_deg, FNeg(bank_limit_deg))
             THEN FNeg(bank_limit_deg) ELSE target_bank_deg
    IN  IF FGt(a, bank_limit_deg) THEN bank_limit_deg ELSE a

\* the same guarding against gs_mps <= 0 only
EtaSecPositive(dist_m, gs_mps) ==
    IF FGt(gs_mps, 0) THEN FDiv(dist_m, gs_mps) ELSE 0

\* the value handed to wp_eta_sec->setFloatValue
EtaSec(dist_m, gs_mps) ==
    IF FGt(gs_mps, D(1) \div 10) THEN FDiv(dist_m, gs_mps) ELSE 0

\* the locals of one update(), from the leaves it reads
Locals(b) ==
    LET direction == DirectionSign(b.direction)
        cd == CourseAndDistance(b.lon, b.lat, b.coord_lon, b.coord_lat)
        course_deg == cd.course_deg
        dist_m == cd.dist_m
        ideal_crs == Wrap360(FAdd(course_deg, FMul(direction, D(90))))
        radius_m == ClampRadius(b.radius)
        target_crs == TargetCourse(ideal_crs, direction, dist_m, radius_m)
        L1_period == b.L1_period
        gs_mps == b.groundspeed
        omegaA == FDiv(FMul(sqrt_of_2, SGD_PI), L1_period)
        VomegaA == FMul(gs_mps, omegaA)
        course_error == CourseError(b.groundtrack, target_crs)
        accel == FMul(FMul(D(2), Sin(DegToRad(course_error))), VomegaA)
        ideal_accel == IdealAccel(direction, gs_mps, radius_m)
        total_accel == FAdd(ideal_accel, accel)
        target_bank == FNeg(Atan(FDiv(total_accel, gravity)))
        bank_limit_deg == b.bank_limit
    IN  [ direction |-> direction, course_deg |-> course_deg,
          dist_m |-> dist_m, ideal_crs |-> ideal_crs, radius_m |-> radius_m,
          offset_deg |-> OffsetDeg(direction, dist_m, radius_m),
          target_crs |-> target_crs, course_error |-> course_error,
          ideal_accel |-> ideal_accel, total_accel |-> total_accel,
          target_bank_deg |-> ClampBank(RadToDeg(target_bank), bank_limit_deg),
          bank_limit_deg |-> bank_limit_deg, gs_mps |-> gs_mps,
          divisions |->
              (IF FLt(dist_m, radius_m)
               THEN {[at |-> "dist_m / radius_m", by |-> radius_m]} ELSE {})
              \cup (IF FGt(dist_m, radius_m)
                    THEN {[at |-> "offset_dist / radius_m", by |-> radius_m]}
                    ELSE {})
              \cup {[at |-> "sqrt_of_2 * SGD_PI / L1_period", by |-> L1_period],
                    [at |-> "gs_mps * gs_mps / radius_m", by |-> radius_m],
                    [at |-> "total_accel / gravity", by |-> gravity]}
              \cup (IF FGt(gs_mps, D(1) \div 10)
                    THEN {[at |-> "dist_m / gs_mps", by |-> gs_mps]} ELSE {}) ]

\* the same without the else branch: a slow vehicle keeps the last ETA
PublishKeepEta(b, t) ==
    [ b EXCEPT !.target_course_deg = t.target_crs,
               !.ap_roll = t.target_bank_deg,
               !.wp_dist_m = ToFloat(t.dist_m),
               !.wp_eta_sec = IF FGt(t.gs_mps, D(1) \div 10)
                              THEN ToFloat(FDiv(t.dist_m, t.gs_mps)) ELSE @ ]

\* the four leaves update() sets
Publish(b, t) ==
    [ b EXCEPT !.target_course_deg = t.target_crs,
               !.ap_roll = t.target_bank_deg,
               !.wp_dist_m = ToFloat(t.dist_m),
               !.wp_eta_sec = ToFloat(EtaSec(t.dist_m, t.gs_mps)) ]

\* ------------------------------------------------------------------ bind()
\* the same with the write left out
OverrideValueKept(target, old) == old

\* the override leaf after bind(): set only when the task gave a value > 0
OverrideValue(target, old) == IF FGt(target, 0) THEN target ELSE old

\* the tuning leaf after bind(): a conservative default when none is given
SanityDefault(value, default) == IF FLt(value, D(1) \div 10) THEN default ELSE value

bind(t, b) ==
    [ b EXCEPT !.override_agl = OverrideValue(t._target_agl_ft, @),
               !.override_speed = OverrideValue(t._target_speed_kt, @),
               !.bank_limit = SanityDefault(@, D(20)),
               !.L1_period = SanityDefault(@, D(25)) ]

\* ----------------------------------------------------------------- actions
Bind ==
    /\ ~this.bound
    /\ this' = [this EXCEPT !.bound = TRUE]
    /\ bb' = bind(this, bb)
    /\ last' = "bind"
    /\ UNCHANGED <<tick, writes, cfg_written>>

\* update() dereferences the nodes bind() looks up, so it runs once bound
Update ==
    /\ this.bound
    /\ tick' = Locals(bb)
    /\ bb' = Publish(bb, Locals(bb))
    /\ last' = "update"
    /\ writes' = 0
    /\ UNCHANGED <<this, cfg_written>>

set_direction(direction) ==
    /\ this.bound
    /\ writes < MaxWrites
    /\ bb' = [bb EXCEPT !.direction = direction]
    /\ last' = "set_direction"
    /\ writes' = writes + 1
    /\ cfg_written' = TRUE
    /\ UNCHANGED <<this, tick>>

set_radius(radius_m) ==
    /\ this.bound
    /\ writes < MaxWrites
    /\ bb' = [bb EXCEPT !.radius = radius_m]
    /\ last' = "set_radius"
    /\ writes' = writes + 1
    /\ cfg_written' = TRUE
    /\ UNCHANGED <<this, tick>>

\* the rest of the system writing the leaves the task reads
WritePosition(p) ==
    /\ writes < MaxWrites
    /\ bb' = [bb EXCEPT !.lon = p[1], !.lat = p[2]]
    /\ last' = "write"
    /\ writes' = writes + 1
    /\ UNCHANGED <<this, tick, cfg_written>>

WriteGroundtrack(g) ==
    /\ writes < MaxWrites
    /\ bb' = [bb EXCEPT !.groundtrack = g]
    /\ last' = "write"
    /\ writes' = writes + 1
    /\ UNCHANGED <<this, tick, cfg_written>>

WriteGroundspeed(v) ==
    /\ writes < MaxWrites
    /\ bb' = [bb EXCEPT !.groundspeed = v]
    /\ last' = "write"
    /\ writes' = writes + 1
    /\ UNCHANGED <<this, tick, cfg_written>>

WriteBankLimit(l) ==
    /\ writes < MaxWrites
    /\ bb' = [bb EXCEPT !.bank_limit = l]
    /\ last' = "write"
    /\ writes' = writes + 1
    /\ UNCHANGED <<this, tick, cfg_written>>

WriteL1Period(p) ==
    /\ writes < MaxWrites
    /\ bb' = [bb EXCEPT !.L1_period = p]
    /\ last' = "write"
    /\ writes' = writes + 1
    /\ UNCHANGED <<this, tick, cfg_written>>

\* ---------------------------------------------------------- specifications
\* a task built from any task parameters, over an empty property tree
Init ==
    /\ \E dir \in TaskDirections, rad \in TaskRadii,
          agl \in TaskAgls, spd \in TaskSpeeds :
          this = Construct(dir, rad, agl, spd)
    /\ bb = EmptyTree
    /\ tick = NoTick
    /\ last = "construct"
    /\ writes = 0
    /\ cfg_written = FALSE

\* a task built from no task parameters: the member initialisers
InitDefault ==
    /\ this = Construct("left", D(100), 0, 0)
    /\ bb = EmptyTree
    /\ tick = NoTick
    /\ last = "construct"
    /\ writes = 0
    /\ cfg_written = FALSE

\* the task's own operations
Next ==
    \/ Bind
    \/ Update
    \/ \E d \in DirectionArgs : set_direction(d)
    \/ \E r \in RadiusArgs : set_radius(r)

Spec == Init /\ [][Next]_vars

\* the task flying: the vehicle moves and the circle is re-set
NextLaw ==
    \/ Bind
    \/ Update
    \/ \E d \in DirectionArgs : set_direction(d)
    \/ \E r \in RadiusArgs : set_radius(r)
    \/ \E p \in Points : WritePosition(p)
    \/ \E g \in Groundtracks : WriteGroundtrack(g)
    \/ \E v \in Speeds : WriteGroundspeed(v)

SpecLaw == InitDefault /\ [][NextLaw]_vars

\* the task flying while the autopilot tuning is changed
NextTuning ==
    \/ Bind
    \/ Update
    \/ \E v \in Speeds : WriteGroundspeed(v)
    \/ \E l \in BankLimits : WriteBankLimit(l)
    \/ \E p \in L1Periods : WriteL1Period(p)

SpecTuning == InitDefault /\ [][NextTuning]_vars

\* ------------------------------------------------------------------ claims
JustTicked == last = "update"

\* C1: after every update() the value published to target-roll-deg lies in
\* [-bank_limit_deg, +bank_limit_deg], bank_limit_deg being the bank limit
\* read in that tick, whatever is on the blackboard.
C1_BankWithinLimit ==
    JustTicked =>
        /\ FLe(FNeg(tick.bank_limit_deg), bb.ap_roll)
        /\ FLe(bb.ap_roll, tick.bank_limit_deg)

\* C2: after every update() the published target course is in [0, 360).
C2_CourseInHalfOpenRange ==
    JustTicked =>
        /\ FGe(bb.target_course_deg, D(0))
        /\ FLt(bb.target_course_deg, D(360))

\* C3: far-field law: when dist_m >= 2 * radius_m the published target course
\* equals the bearing to the centre returned by the geodesic helper.
C3_FarFieldIsBearing ==
    (JustTicked /\ FGe(tick.dist_m, FMul(D(2), tick.radius_m)))
        => bb.target_course_deg = tick.course_deg

\* C4: while nothing has written <config>/radius-m and <config>/direction, an
\* update() uses the constructor's values: radius max(_radius_m, 10) and
\* direction -1 exactly when _direction is "right".
C4_TaskParametersUsed ==
    (JustTicked /\ ~cfg_written) =>
        /\ tick.radius_m = (IF this._radius_m < D(10) THEN D(10) ELSE this._radius_m)
        /\ tick.direction = (IF this._direction = "right" THEN -D(1) ELSE D(1))

C6_EtaGuarded ==
    JustTicked =>
        /\ bb.wp_dist_m = ToFloat(tick.dist_m)
        /\ (FLe(tick.gs_mps, D(1) \div 10) => bb.wp_eta_sec = 0)
        /\ (FGt(tick.gs_mps, D(1) \div 10)
                => bb.wp_eta_sec = ToFloat(FDiv(tick.dist_m, tick.gs_mps)))
        /\ \A d \in tick.divisions :
               d.at = "dist_m / gs_mps" => FGt(d.by, D(1) \div 10)

C6_Witness ==
    /\ JustTicked
    /\ tick.gs_mps = D(20) /\ tick.dist_m = D(100)
    /\ bb.wp_eta_sec = D(5)

\* C7: the tick with the direction reversed and every other leaf the same has
\* the negated centripetal term and the negated radial-error offset, and its
\* target course is the mirror image about the bearing to the centre.
Reversed(b) ==
    [b EXCEPT !.direction = IF @ = "right" THEN "left" ELSE "right"]

C7_DirectionReversal ==
    (JustTicked /\ bb.direction \in {"left", "right"}) =>
        LET m == Locals(Reversed(bb))
        IN  /\ m.ideal_accel = FNeg(tick.ideal_accel)
            /\ m.offset_deg = FNeg(tick.offset_deg)
            /\ ( (bb.target_course_deg - tick.course_deg)
               + (m.target_crs - m.course_deg) ) % D(360) = 0

C7_Witness ==
    /\ JustTicked
    /\ bb.direction = "right"
    /\ tick.dist_m > 0 /\ tick.dist_m < tick.radius_m
    /\ tick.ideal_accel < 0
    /\ tick.offset_deg < 0

\* C8: what an update() publishes depends on nothing but the leaves it reads:
\* whatever the four output leaves held before the tick (the only trace
\* earlier ticks leave), the same four values are published; and the update()
\* that follows a set_direction(x) uses the sign of x.
StaleOutputs ==
    [ target_course_deg : {D(0), D(123)}, ap_roll : {D(0), -D(20)},
      wp_dist_m : {D(0), D(77)}, wp_eta_sec : {D(0), D(7)} ]

WithHistory(b, h) ==
    [b EXCEPT !.target_course_deg = h.target_course_deg, !.ap_roll = h.ap_roll,
              !.wp_dist_m = h.wp_dist_m, !.wp_eta_sec = h.wp_eta_sec]

Published(b) == <<b.target_course_deg, b.ap_roll, b.wp_dist_m, b.wp_eta_sec>>

C8_NoMemory ==
    /\ [](JustTicked =>
            \A h \in StaleOutputs :
                Published(Publish(WithHistory(bb, h), Locals(WithHistory(bb, h))))
                    = Published(bb))
    /\ [][ (last = "set_direction" /\ last' = "update")
              => tick'.direction = (IF bb.direction = "right" THEN -D(1) ELSE D(1)) ]_vars

C8_Witness ==
    /\ JustTicked
    /\ cfg_written
    /\ bb.direction = "right" /\ tick.direction = -D(1)
    /\ bb.groundspeed = 0 /\ bb.wp_eta_sec = 0
    /\ bb.target_course_deg # 0

\* C9: the course error fed to the L1 law lies in (-180, +180].
C9_CourseErrorHalfOpen ==
    JustTicked =>
        /\ FGt(tick.course_error, -D(180))
        /\ FLe(tick.course_error, D(180))

\* C10: no update() divides by zero: every divisor of the tick is non-zero.
C10_NoDivisionByZero ==
    JustTicked => \A d \in tick.divisions : d.by # 0

====
